---- MODULE Spec2Model ----
(***************************************************************************)
(* The two management screens of src/app/(dash)/manage-departments/page.tsx *)
(* (DepartmentList and TeamMemberList) as one state machine.  One screen is *)
(* mounted per behaviour (screen); its React state is the variables, every  *)
(* click handler and every continuation that runs when a fetch or an upload *)
(* settles is one action.  Requests in flight are records in inflight, and  *)
(* they settle in any order.                                                *)
(***************************************************************************)
EXTENDS Integers, Sequences, FiniteSets, TLC

VARIABLES
    screen,              \* "dept" (DepartmentList) or "team" (TeamMemberList)
    mounted,             \* the mount effect (useEffect(..., [])) has run
    departments,         \* DepartmentList: the list; TeamMemberList: the selector options
    teamMembers,         \* TeamMemberList: the list
    loading,
    isDialogOpen,
    isDeleteDialogOpen,
    isEdit,
    currentId,           \* currentDepartmentId / currentMemberId
    form,                \* the react-hook-form values
    memberImageLink,
    isUploading,
    inflight,            \* requests issued and not yet settled, in the order issued
    history,             \* whether this behaviour records the history of its list reads
    latestOk,            \* history: the result of the successful list read issued last
    last,                \* history: the step taken last, its response and its toasts
    opening,             \* history: how the form dialog now open was opened
    quill                \* the rich-text editor behind createQuillModules(quillRef)

vars == <<screen, mounted, departments, teamMembers, loading, isDialogOpen,
          isDeleteDialogOpen, isEdit, currentId, form, memberImageLink,
          isUploading, inflight, history, latestOk, last, opening, quill>>

\* Everything the screen holds and has in flight.
screenVars == <<screen, mounted, departments, teamMembers, loading, isDialogOpen,
                isDeleteDialogOpen, isEdit, currentId, form, memberImageLink,
                isUploading, inflight>>

\* How many requests (fetches and uploads) may be in flight at once; the
\* mount effect of TeamMemberList alone issues two.
MaxInflight == 2

Screens == {"dept", "team"}

\* JavaScript null / undefined (an absent optional field, a missing message).
Null == "<null>"

\* a || b on strings: the empty string and null/undefined are falsy.
OrElse(a, b) == IF a = Null \/ a = "" THEN b ELSE a

\* a ?? b
Coalesce(a, b) == IF a = Null THEN b ELSE a

-----------------------------------------------------------------------------
(* Rows the server may return.  An optional array (teams) is <<>> when      *)
(* absent and <<array>> when present.                                       *)

D1 == [id |-> "1", name |-> "Engineering", description |-> Null, teams |-> <<>>]
D2 == [id |-> "2", name |-> "Sales", description |-> "Field sales",
       teams |-> << <<"m1", "m2">> >>]
\* teams present and empty
D3 == [id |-> "3", name |-> "Kitchen", description |-> Null, teams |-> << <<>> >>]

M1 == [id |-> "m1", name |-> "Asha", designation |-> "Guide", about |-> "Leads treks",
       image |-> "img-a", departmentId |-> "1"]
M2 == [id |-> "m2", name |-> "Bikram", designation |-> "Cook", about |-> "Cooks",
       image |-> Null, departmentId |-> Null]
\* data of GET /department
DeptBodies == { <<D1>>, <<D2, D3>> }

\* data of GET /department as the department selector reads it
SelectorBodies == { <<D1, D2>> }

\* data of GET /team: a JSON object keyed by department id, written here as
\* its entries in the order they appear in the body.  Keys "1" and "2" are
\* integer-like, "ops" is not.
Entry(k, ms) == [key |-> k, members |-> ms]
TeamBodies ==
    { << Entry("ops", <<M2>>), Entry("1", <<M1>>) >>,
      << Entry("2", <<M1, M2>>), Entry("1", <<>>) >>,
      << Entry("1", <<M2>>) >> }

\* Object.keys order: integer-like keys ascending, then the other keys in
\* insertion order.
IsArrayIndex(k) == k \in {"1", "2"}
IndexOf(k) == IF k = "1" THEN 1 ELSE 2

RECURSIVE SortedIndexKeys(_, _)
SortedIndexKeys(grouped, from) ==
    IF from > 2 THEN <<>>
    ELSE LET here == SelectSeq(grouped,
                        LAMBDA e : IsArrayIndex(e.key) /\ IndexOf(e.key) = from)
         IN  here \o SortedIndexKeys(grouped, from + 1)

ObjectKeys(grouped) ==
    SortedIndexKeys(grouped, 1)
        \o SelectSeq(grouped, LAMBDA e : ~IsArrayIndex(e.key))

\* Mutant: flatArray = grouped[k] instead of flatArray.push(...grouped[k]).
PushAllLastOnly(flatArray, entries) ==
    IF entries = <<>> THEN flatArray ELSE entries[Len(entries)].members

\* Object.keys(grouped).forEach(k => flatArray.push(...grouped[k]))
RECURSIVE PushAll(_, _)
PushAll(flatArray, entries) ==
    IF entries = <<>> THEN flatArray
    ELSE PushAll(flatArray \o Head(entries).members, Tail(entries))

Flatten(grouped) == PushAll(<<>>, ObjectKeys(grouped))

-----------------------------------------------------------------------------
(* Requests and responses.                                                  *)

\* The body of a request: <<>> when it has none, <<payload>> otherwise.
NoPayload == <<>>

\* superseded (history): for a list read, a list read issued after this one
\* has already succeeded; for an upload, the form dialog has been opened again
\* since the upload started.
Req(kind, id, payload) ==
    [kind |-> kind, id |-> id, payload |-> payload, superseded |-> FALSE]

Res(rejected, ok, parsable, message, data) ==
    [rejected |-> rejected, ok |-> ok, parsable |-> parsable,
     message |-> message, data |-> data]

NoRes == Res(FALSE, FALSE, FALSE, Null, <<>>)

ServerMessage == "Message from the server"
Messages == {Null, "", ServerMessage}

\* What a POST, PATCH or DELETE settles with: the fetch rejects; the status is
\* OK with a JSON body; the status is not OK with a JSON body (a business
\* error); or the status is not OK and the body is not JSON (a transport
\* level error page).  A JSON body may or may not carry a message.
MutationResponses ==
    {Res(TRUE, FALSE, FALSE, Null, <<>>), Res(FALSE, FALSE, FALSE, Null, <<>>)}
        \cup {Res(FALSE, ok, TRUE, m, <<>>) : ok \in BOOLEAN, m \in Messages}

\* What a GET settles with.
ReadResponses(bodies) ==
    {Res(TRUE, FALSE, FALSE, Null, <<>>), Res(FALSE, FALSE, TRUE, Null, <<>>)}
        \cup {Res(FALSE, TRUE, TRUE, Null, d) : d \in bodies}

\* What uploadImageToCloudflare settles with: <<reference>>, or it throws.
UploadedImage == "img-new"
UploadResponses ==
    {Res(TRUE, FALSE, FALSE, Null, <<>>), Res(FALSE, TRUE, TRUE, Null, <<UploadedImage>>)}

Step(op, res, toasts) == [op |-> op, res |-> res, toasts |-> toasts]

Toast(level, text) == [level |-> level, text |-> text]

Remove(seq, i) == SubSeq(seq, 1, i - 1) \o SubSeq(seq, i + 1, Len(seq))

\* The requests of the given kinds in flight.
InFlight(kinds) == SelectSeq(inflight, LAMBDA r : r.kind \in kinds)

-----------------------------------------------------------------------------
(* Forms.                                                                   *)

BlankForm ==
    IF screen = "dept"
    THEN [name |-> "", description |-> ""]
    ELSE [name |-> "", designation |-> "", about |-> "", departmentId |-> ""]

\* What the user may type into the open form.
TypedForms ==
    IF screen = "dept"
    THEN {[name |-> "Operations", description |-> ""]}
    ELSE {[name |-> "Dawa", designation |-> "Guide", about |-> "New guide",
           departmentId |-> "1"]}

\* Mutant: the optional values copied without || "".
RowFormRaw(row) ==
    IF screen = "dept"
    THEN [name |-> row.name, description |-> row.description]
    ELSE [name |-> row.name, designation |-> row.designation, about |-> row.about,
          departmentId |-> row.departmentId]

\* reset({...}) of openEditDialog
RowForm(row) ==
    IF screen = "dept"
    THEN [name |-> row.name, description |-> OrElse(row.description, "")]
    ELSE [name |-> row.name, designation |-> row.designation, about |-> row.about,
          departmentId |-> OrElse(row.departmentId, "")]

\* The inputs marked required: the browser refuses to submit while one is empty.
RequiredFilled ==
    IF screen = "dept"
    THEN form.name # ""
    ELSE form.name # "" /\ form.designation # "" /\ form.about # ""

List == IF screen = "dept" THEN departments ELSE teamMembers

ListBodies == IF screen = "dept" THEN DeptBodies ELSE TeamBodies

\* The list a successful read of the screen's collection yields.
ReadResult(data) == IF screen = "dept" THEN data ELSE Flatten(data)

\* The dialogs are modal overlays: the page behind an open dialog takes no clicks.
PageInteractive == ~isDialogOpen /\ ~isDeleteDialogOpen

\* Mutant: the rows are rendered whatever loading says.
RowsShownWhileLoading == Len(List) > 0

\* The table body shows the rows (and their buttons) only when not loading.
RowsShown == ~loading /\ Len(List) > 0

\* Mutant: the cell tells whether there are teams, not how many.
TeamCountAsFlag(department) == IF department.teams = <<>> THEN 0 ELSE 1

\* {department.teams?.length || 0}
TeamCount(department) ==
    IF department.teams = <<>> THEN 0 ELSE Len(department.teams[1])

\* One row of the table body: its kind and the text of its cells.
Row(kind, index, name, description, count) ==
    [kind |-> kind, index |-> index, name |-> name, description |-> description,
     count |-> count]

\* The table body of DepartmentList: five skeleton rows while loading, else
\* one row per department, else the single "No departments found" row.
TableBody ==
    IF loading
    THEN [i \in 1..5 |-> Row("skeleton", 0, Null, Null, 0)]
    ELSE IF Len(departments) > 0
    THEN [index \in 1..Len(departments) |->
            LET department == departments[index] IN
            Row("department", index, department.name,
                OrElse(department.description, "-"), TeamCount(department))]
    ELSE << Row("empty", 0, "No departments found", Null, 0) >>

\* Room for one more request in flight.
Room == Len(inflight) < MaxInflight

\* History: the form dialog is closed (NoOpening), or it was opened by the
\* create button (row <<>>) or by the edit button of the row in <<row>>.
\* stale: the stored image reference is the result of an upload that was
\* started before this opening.
Opened(mode, row) == [mode |-> mode, row |-> row, stale |-> FALSE]
NoOpening == Opened("closed", <<>>)

\* The editor before anything has happened to it.  ref is what the handlers
\* find in quillRef: "undefined" (no ref object), "null" (quillRef.current not
\* set) or "live".  op and calls are the handler run last and the calls it made.
QuillConstructed(ref) ==
    [ref |-> ref, text |-> <<>>, selection |-> <<>>, op |-> "init", calls |-> <<>>]

-----------------------------------------------------------------------------
\* The state after the first render: the useState and useForm initial values.
Constructed ==
    /\ screen \in Screens
    /\ mounted = FALSE
    /\ departments = <<>>
    /\ teamMembers = <<>>
    /\ loading = FALSE
    /\ isDialogOpen = FALSE
    /\ isDeleteDialogOpen = FALSE
    /\ isEdit = FALSE
    /\ currentId = Null
    /\ form = BlankForm
    /\ memberImageLink = Null
    /\ isUploading = FALSE
    /\ inflight = <<>>
    /\ latestOk = [any |-> FALSE, list |-> <<>>]
    /\ last = Step("init", NoRes, <<>>)
    /\ opening = NoOpening

Init == Constructed /\ history = FALSE /\ quill = QuillConstructed("null")

\* The same screens, with the history of the list reads recorded.
InitReads == Constructed /\ history = TRUE /\ quill = QuillConstructed("null")

\* fetch(`/department`) or fetch(`/team`) of the screen's own collection
ListRead == Req("GET_LIST", Null, NoPayload)

\* TeamMemberList.fetchDepartments: the options of the department selector.
SelectorRead == Req("GET_SELECTOR", Null, NoPayload)

\* The requests in new are issued.
Issue(new) == inflight' = inflight \o new

\* The request at position i settles and the requests in new are issued.
Settle(i, new) == inflight' = Remove(inflight, i) \o new

\* useEffect(() => { fetchDepartments(); }, []) and
\* useEffect(() => { fetchDepartments(); fetchTeamMembers(); }, [])
MountRequests == IF screen = "dept" THEN <<ListRead>> ELSE <<SelectorRead, ListRead>>

Mount ==
    /\ ~mounted
    /\ mounted' = TRUE
    /\ loading' = TRUE
    /\ Issue(MountRequests)
    /\ last' = Step("mount", NoRes, <<>>)
    /\ UNCHANGED <<screen, departments, teamMembers, isDialogOpen, isDeleteDialogOpen,
                   isEdit, currentId, form, memberImageLink, isUploading, history, latestOk>>
    /\ UNCHANGED <<opening, quill>>

-----------------------------------------------------------------------------
(* List reads: the continuations of fetchDepartments and fetchTeamMembers.  *)

LoadFailedText ==
    IF screen = "dept" THEN "Failed to load departments" ELSE "Failed to load team members"

\* Mutant: the catch branch empties the list.
ListAfterReadClearing(res) == IF res.ok THEN ReadResult(res.data) ELSE <<>>

\* setDepartments(data.data) / setTeamMembers(flatArray) on success; the
\* catch branch leaves the list alone.
ListAfterRead(res) == IF res.ok THEN ReadResult(res.data) ELSE List

\* the catch branch: toast.error(...)
ReadToasts(res, text) == IF res.ok THEN <<>> ELSE <<Toast("error", text)>>

\* finally { setLoading(false) }
LoadingAfterRead == FALSE

SetList(l) ==
    IF screen = "dept"
    THEN departments' = l /\ UNCHANGED teamMembers
    ELSE teamMembers' = l /\ UNCHANGED departments

\* History: once the read at position i has succeeded, every list read issued
\* before it is superseded.
Supersede(i) ==
    [j \in 1..Len(inflight) |->
        IF j < i /\ inflight[j].kind = "GET_LIST"
        THEN [inflight[j] EXCEPT !.superseded = TRUE]
        ELSE inflight[j]]

ListReadSettled(i, res) ==
    /\ i \in 1..Len(inflight)
    /\ inflight[i].kind = "GET_LIST"
    /\ res \in ReadResponses(ListBodies)
    /\ SetList(ListAfterRead(res))
    /\ loading' = LoadingAfterRead
    /\ inflight' = Remove(IF history /\ res.ok THEN Supersede(i) ELSE inflight, i)
    /\ latestOk' = IF history /\ res.ok /\ ~inflight[i].superseded
                   THEN [any |-> TRUE, list |-> ReadResult(res.data)]
                   ELSE latestOk
    /\ last' = Step("listRead", res, ReadToasts(res, LoadFailedText))
    /\ UNCHANGED <<screen, mounted, isDialogOpen, isDeleteDialogOpen, isEdit,
                   currentId, form, memberImageLink, isUploading, history>>
    /\ UNCHANGED <<opening, quill>>

\* TeamMemberList.fetchDepartments: no loading flag.
SelectorReadSettled(i, res) ==
    /\ i \in 1..Len(inflight)
    /\ inflight[i].kind = "GET_SELECTOR"
    /\ res \in ReadResponses(SelectorBodies)
    /\ departments' = IF res.ok THEN res.data ELSE departments
    /\ Settle(i, <<>>)
    /\ last' = Step("selectorRead", res,
                    ReadToasts(res, "Failed to load departments"))
    /\ UNCHANGED <<screen, mounted, teamMembers, loading, isDialogOpen, isDeleteDialogOpen,
                   isEdit, currentId, form, memberImageLink, isUploading, history, latestOk>>
    /\ UNCHANGED <<opening, quill>>

-----------------------------------------------------------------------------
(* The form dialog.                                                         *)

\* History: the uploads in flight when the form dialog opens were started
\* during an earlier opening (an upload starts only from the open dialog).
AtOpening ==
    IF history
    THEN [j \in 1..Len(inflight) |->
            IF inflight[j].kind = "UPLOAD"
            THEN [inflight[j] EXCEPT !.superseded = TRUE]
            ELSE inflight[j]]
    ELSE inflight

openCreateDialog ==
    /\ mounted
    /\ PageInteractive
    /\ isEdit' = FALSE
    /\ currentId' = Null
    /\ form' = BlankForm
    /\ memberImageLink' = Null
    /\ isDialogOpen' = TRUE
    /\ last' = Step("openCreate", NoRes, <<>>)
    /\ inflight' = AtOpening
    /\ UNCHANGED <<screen, mounted, departments, teamMembers, loading,
                   isDeleteDialogOpen, isUploading, history, latestOk>>
    /\ opening' = Opened("create", <<>>)
    /\ UNCHANGED quill

openEditDialog(i) ==
    /\ mounted
    /\ PageInteractive
    /\ RowsShown
    /\ i \in 1..Len(List)
    /\ isEdit' = TRUE
    /\ currentId' = List[i].id
    /\ form' = RowForm(List[i])
    /\ memberImageLink' = IF screen = "team" THEN Coalesce(List[i].image, Null) ELSE Null
    /\ isDialogOpen' = TRUE
    /\ last' = Step("openEdit", NoRes, <<>>)
    /\ inflight' = AtOpening
    /\ UNCHANGED <<screen, mounted, departments, teamMembers, loading,
                   isDeleteDialogOpen, isUploading, history, latestOk>>
    /\ opening' = Opened("edit", <<List[i]>>)
    /\ UNCHANGED quill

\* <Dialog open={isDialogOpen} onOpenChange={setIsDialogOpen}>: dismissing the
\* dialog (Escape, the close button, a click on the overlay).
CloseFormDialog ==
    /\ isDialogOpen
    /\ isDialogOpen' = FALSE
    /\ last' = Step("closeForm", NoRes, <<>>)
    /\ UNCHANGED <<screen, mounted, departments, teamMembers, loading, isDeleteDialogOpen,
                   isEdit, currentId, form, memberImageLink, isUploading, inflight,
                   history, latestOk>>
    /\ opening' = NoOpening
    /\ UNCHANGED quill

\* {...register("name")} and the other inputs: the user edits the fields.
TypeForm(v) ==
    /\ isDialogOpen
    /\ v \in TypedForms
    /\ form # v
    /\ form' = v
    /\ last' = Step("type", NoRes, <<>>)
    /\ UNCHANGED <<screen, mounted, departments, teamMembers, loading, isDialogOpen,
                   isDeleteDialogOpen, isEdit, currentId, memberImageLink, isUploading,
                   inflight, history, latestOk>>
    /\ UNCHANGED <<opening, quill>>

\* Mutant: the submit button without disabled={isUploading}.
SubmitAlwaysEnabled == TRUE

\* <Button type="submit" disabled={isUploading}> (TeamMemberList); the
\* DepartmentList button is never disabled.
SubmitEnabled == screen = "team" => ~isUploading

\* if (x): null, undefined and the empty string are falsy
Truthy(x) == x # Null /\ x # ""

\* Mutant: payload.image = memberImageLink without the if.
PayloadImageAlways == [image |-> IF screen = "team" THEN <<memberImageLink>> ELSE <<>>]

\* const payload = { ...data }; if (memberImageLink) payload.image = memberImageLink
\* The body's image field: <<>> when the body has none, <<reference>> when it
\* has one.  The form values go out with it and play no part in what the
\* screen does afterwards, so a request in flight does not carry them here.
Payload ==
    [image |-> IF screen = "team" /\ Truthy(memberImageLink)
               THEN <<memberImageLink>> ELSE <<>>]

\* Mutant: the request built as for a creation whatever isEdit says.
SubmitRequestAlwaysPost == Req("POST", Null, <<Payload>>)

\* method and url of onSubmit
SubmitRequest ==
    Req(IF isEdit THEN "PATCH" ELSE "POST", IF isEdit THEN currentId ELSE Null,
        <<Payload>>)

\* handleSubmit(onSubmit) up to the first await: the request is issued.
SubmitForm ==
    /\ isDialogOpen
    /\ SubmitEnabled
    /\ RequiredFilled
    /\ Room
    /\ Issue(<<SubmitRequest>>)
    /\ last' = Step("submit", NoRes, <<>>)
    /\ UNCHANGED <<screen, mounted, departments, teamMembers, loading, isDialogOpen,
                   isDeleteDialogOpen, isEdit, currentId, form, memberImageLink,
                   isUploading, history, latestOk>>
    /\ UNCHANGED <<opening, quill>>

-----------------------------------------------------------------------------
(* The continuations of onSubmit and of deleteDepartment/deleteTeamMember.  *)

\* await fetch(...) rejects, or await res.json() throws on a body that is not
\* JSON: the handler has no try/catch, the rest of it does not run.
Throws(res) == res.rejected \/ ~res.parsable

SubmitOkText(r) ==
    IF screen = "dept"
    THEN (IF r.kind = "PATCH" THEN "Department updated successfully"
                              ELSE "Department added successfully")
    ELSE (IF r.kind = "PATCH" THEN "Team member updated successfully"
                              ELSE "Team member added successfully")

DeletedText == IF screen = "dept" THEN "Department deleted!" ELSE "Team member deleted!"

\* Mutant: the error branch always shows the fallback text.
SubmitToastsFallbackOnly(r, res) ==
    IF Throws(res) THEN <<>>
    ELSE IF res.ok THEN <<Toast("success", SubmitOkText(r))>>
    ELSE <<Toast("error", "Something went wrong")>>

\* if (res.ok) toast.success(...) else toast.error(resJson?.message || "Something went wrong")
SubmitToasts(r, res) ==
    IF Throws(res) THEN <<>>
    ELSE IF res.ok THEN <<Toast("success", SubmitOkText(r))>>
    ELSE <<Toast("error", OrElse(res.message, "Something went wrong"))>>

\* if (res.ok) toast.success(data?.message || "... deleted!")
\* else toast.error(data?.message || "Delete failed")
DeleteToasts(res) ==
    IF Throws(res) THEN <<>>
    ELSE IF res.ok THEN <<Toast("success", OrElse(res.message, DeletedText))>>
    ELSE <<Toast("error", OrElse(res.message, "Delete failed"))>>

\* Mutant: the refetch outside the if: the list is also read after an error.
RefetchAlsoOnError(res) == IF Throws(res) THEN <<>> ELSE <<ListRead>>

\* Mutant: the success branch forgets the refetch.
RefetchNever(res) == <<>>

\* if (res.ok) { ...; fetchDepartments() / fetchTeamMembers() }
Refetch(res) == IF ~Throws(res) /\ res.ok THEN <<ListRead>> ELSE <<>>

\* Mutant: setIsDialogOpen(false) outside the if.
DialogAfterSubmitAlwaysClosed(res) == IF Throws(res) THEN isDialogOpen ELSE FALSE

\* if (res.ok) { ...; setIsDialogOpen(false); ... }
DialogAfterSubmit(res) == IF ~Throws(res) /\ res.ok THEN FALSE ELSE isDialogOpen

\* react-hook-form keeps the values: onSubmit never calls reset.
FormAfterSubmit(res) == form

\* fetchDepartments() / fetchTeamMembers() starts with setLoading(true)
LoadingAfter(reads) == IF reads # <<>> THEN TRUE ELSE loading

SubmitSettled(i, res) ==
    /\ i \in 1..Len(inflight)
    /\ inflight[i].kind \in {"POST", "PATCH"}
    /\ res \in MutationResponses
    /\ isDialogOpen' = DialogAfterSubmit(res)
    /\ form' = FormAfterSubmit(res)
    /\ loading' = LoadingAfter(Refetch(res))
    /\ Settle(i, Refetch(res))
    /\ last' = Step("submitSettled", res, SubmitToasts(inflight[i], res))
    /\ UNCHANGED <<screen, mounted, departments, teamMembers, isDeleteDialogOpen, isEdit,
                   currentId, memberImageLink, isUploading, history, latestOk>>
    /\ opening' = IF DialogAfterSubmit(res) THEN opening ELSE NoOpening
    /\ UNCHANGED quill

DeleteSettled(i, res) ==
    /\ i \in 1..Len(inflight)
    /\ inflight[i].kind = "DELETE"
    /\ res \in MutationResponses
    /\ loading' = LoadingAfter(Refetch(res))
    /\ Settle(i, Refetch(res))
    /\ last' = Step("deleteSettled", res, DeleteToasts(res))
    /\ UNCHANGED <<screen, mounted, departments, teamMembers, isDialogOpen,
                   isDeleteDialogOpen, isEdit, currentId, form, memberImageLink,
                   isUploading, history, latestOk>>
    /\ UNCHANGED <<opening, quill>>

-----------------------------------------------------------------------------
(* The delete confirmation.                                                 *)

DeleteRequest(id) == Req("DELETE", id, NoPayload)

\* Mutant: the row's delete button deletes at once.
SelectDeleteRequestsAtOnce(i) == <<DeleteRequest(List[i].id)>>

\* the row's delete button: setCurrentDepartmentId(department.id);
\* setIsDeleteDialogOpen(true); no request
SelectDeleteRequests(i) == <<>>

SelectDelete(i) ==
    /\ mounted
    /\ PageInteractive
    /\ RowsShown
    /\ i \in 1..Len(List)
    /\ currentId' = List[i].id
    /\ isDeleteDialogOpen' = TRUE
    /\ Issue(SelectDeleteRequests(i))
    /\ last' = Step("selectDelete", NoRes, <<>>)
    /\ UNCHANGED <<screen, mounted, departments, teamMembers, loading, isDialogOpen,
                   isEdit, form, memberImageLink, isUploading, history, latestOk>>
    /\ UNCHANGED <<opening, quill>>

\* Mutant: Cancel also clears the identifier.
IdAfterCancelCleared == Null

\* Cancel: onClick={() => setIsDeleteDialogOpen(false)}; dismissing the dialog
\* (onOpenChange={setIsDeleteDialogOpen}) does the same.  The identifier stays.
IdAfterCancel == currentId

CancelRequests == <<>>

CancelDelete ==
    /\ isDeleteDialogOpen
    /\ isDeleteDialogOpen' = FALSE
    /\ currentId' = IdAfterCancel
    /\ Issue(CancelRequests)
    /\ last' = Step("cancelDelete", NoRes, <<>>)
    /\ UNCHANGED <<screen, mounted, departments, teamMembers, loading, isDialogOpen,
                   isEdit, form, memberImageLink, isUploading, history, latestOk>>
    /\ UNCHANGED <<opening, quill>>

\* if (currentDepartmentId) deleteDepartment(currentDepartmentId)
ConfirmRequests ==
    IF currentId # Null /\ currentId # "" THEN <<DeleteRequest(currentId)>> ELSE <<>>

\* setIsDeleteDialogOpen(false) right after the call, before any response
DeleteDialogAfterConfirm == FALSE

ConfirmDelete ==
    /\ isDeleteDialogOpen
    /\ Room
    /\ Issue(ConfirmRequests)
    /\ isDeleteDialogOpen' = DeleteDialogAfterConfirm
    /\ last' = Step("confirmDelete", NoRes, <<>>)
    /\ UNCHANGED <<screen, mounted, departments, teamMembers, loading, isDialogOpen,
                   isEdit, currentId, form, memberImageLink, isUploading, history, latestOk>>
    /\ UNCHANGED <<opening, quill>>

-----------------------------------------------------------------------------
(* The image upload (TeamMemberList.handleImageChange).                     *)

UploadRequest == Req("UPLOAD", Null, NoPayload)

\* <Input type="file" disabled={isUploading} onChange=...>; if (!file) return
SelectFile(hasFile) ==
    /\ screen = "team"
    /\ isDialogOpen
    /\ ~isUploading
    /\ hasFile => Room
    /\ IF hasFile
       THEN /\ isUploading' = TRUE
            /\ memberImageLink' = Null
            /\ Issue(<<UploadRequest>>)
       ELSE UNCHANGED <<isUploading, memberImageLink, inflight>>
    /\ last' = Step(IF hasFile THEN "selectFile" ELSE "selectNoFile", NoRes, <<>>)
    /\ UNCHANGED <<screen, mounted, departments, teamMembers, loading, isDialogOpen,
                   isDeleteDialogOpen, isEdit, currentId, form, history, latestOk>>
    /\ opening' = IF hasFile THEN [opening EXCEPT !.stale = FALSE] ELSE opening
    /\ UNCHANGED quill

UploadToasts(res) ==
    IF res.ok THEN <<Toast("success", "Image uploaded successfully")>>
    ELSE <<Toast("error", "Image upload failed")>>

\* Mutant: the returned reference is not stored.
ImageAfterUploadDropped(res) == memberImageLink

\* try { setMemberImageLink(imageUrl) } catch { toast only }
ImageAfterUpload(res) == IF res.ok THEN res.data[1] ELSE memberImageLink

UploadSettled(i, res) ==
    /\ i \in 1..Len(inflight)
    /\ inflight[i].kind = "UPLOAD"
    /\ res \in UploadResponses
    /\ memberImageLink' = ImageAfterUpload(res)
    /\ isUploading' = FALSE
    /\ Settle(i, <<>>)
    /\ last' = Step("uploadSettled", res, UploadToasts(res))
    /\ UNCHANGED <<screen, mounted, departments, teamMembers, loading, isDialogOpen,
                   isDeleteDialogOpen, isEdit, currentId, form, history, latestOk>>
    /\ opening' = IF res.ok /\ isDialogOpen
                  THEN [opening EXCEPT !.stale = inflight[i].superseded]
                  ELSE opening
    /\ UNCHANGED quill

-----------------------------------------------------------------------------
(* The toolbar handlers of createQuillModules(quillRef)                      *)
(* (src/lib/quill/quillModules.ts) and the editor they act on.               *)

\* The longest document the user types.
MaxDoc == 2

Chars == {"a", "b"}

\* The editor's selection: <<>> when it has none, else <<[index, length]>>.
Selection(index, length) == << [index |-> index, length |-> length] >>

\* quillRef?.current is truthy
HasEditor == quill.ref = "live"

\* What the screen and its history hold: the editor steps leave it alone.
outsideQuill == <<screenVars, history, latestOk, last, opening>>

\* the editor component mounts and sets quillRef.current
AttachEditor ==
    /\ quill.ref = "null"
    /\ quill' = [quill EXCEPT !.ref = "live", !.op = "attach", !.calls = <<>>]
    /\ UNCHANGED outsideQuill

\* the editor component unmounts: quillRef.current is null again
DetachEditor ==
    /\ quill.ref = "live"
    /\ quill' = [quill EXCEPT !.ref = "null", !.selection = <<>>,
                              !.op = "detach", !.calls = <<>>]
    /\ UNCHANGED outsideQuill

\* the user types a character at the end of the document
TypeChar(c) ==
    /\ HasEditor
    /\ Len(quill.text) < MaxDoc
    /\ quill' = [quill EXCEPT !.text = Append(quill.text, c),
                              !.selection = Selection(Len(quill.text) + 1, 0),
                              !.op = "type", !.calls = <<>>]
    /\ UNCHANGED outsideQuill

\* the user selects a range of the document
SelectRange(index, length) ==
    /\ HasEditor
    /\ index + length <= Len(quill.text)
    /\ quill.selection # Selection(index, length)
    /\ quill' = [quill EXCEPT !.selection = Selection(index, length),
                              !.op = "select", !.calls = <<>>]
    /\ UNCHANGED outsideQuill

\* One call made by a handler: the call is recorded and the editor changes.
\* setText('') leaves the empty document; a selection the editor had is
\* then at its start.
Call(q, call) ==
    LET done == [q EXCEPT !.calls = Append(q.calls, call)] IN
    IF call = "editor.setText('')"
    THEN [done EXCEPT !.text = <<>>,
                      !.selection = IF q.selection = <<>> THEN <<>> ELSE Selection(0, 0)]
    ELSE IF call = "editor.setSelection(0, 0)"
    THEN [done EXCEPT !.selection = Selection(0, 0)]
    ELSE done

RECURSIVE Run(_, _)
Run(q, calls) == IF calls = <<>> THEN q ELSE Run(Call(q, Head(calls)), Tail(calls))

\* Mutant: the handler clears the text and leaves the cursor alone.
ClearCallsTextOnly ==
    << "quillRef.current.getEditor()", "editor.setText('')" >>

\* the body of the clear handler after its guard
ClearCalls ==
    << "quillRef.current.getEditor()", "editor.setText('')", "editor.setSelection(0, 0)" >>

\* the body of the image handler after its guard
ImageCalls ==
    << "quillRef.current.getEditor()", "quillImageHandler(editor)" >>

\* A toolbar handler: if (!quillRef?.current) return; then its calls.
Handler(op, calls) ==
    LET started == [quill EXCEPT !.op = op, !.calls = <<>>] IN
    /\ quill' = IF HasEditor THEN Run(started, calls) ELSE started
    /\ UNCHANGED outsideQuill

\* handlers.clear
clear == Handler("clear", ClearCalls)

\* handlers.image
image == Handler("image", ImageCalls)

-----------------------------------------------------------------------------
Next ==
    \/ Mount
    \/ \E i \in 1..Len(inflight) : \E res \in ReadResponses(ListBodies) :
            ListReadSettled(i, res)
    \/ \E i \in 1..Len(inflight) : \E res \in ReadResponses(SelectorBodies) :
            SelectorReadSettled(i, res)
    \/ openCreateDialog
    \/ \E i \in 1..Len(List) : openEditDialog(i)
    \/ CloseFormDialog
    \/ \E v \in TypedForms : TypeForm(v)
    \/ SubmitForm
    \/ \E i \in 1..Len(inflight) : \E res \in MutationResponses : SubmitSettled(i, res)
    \/ \E i \in 1..Len(List) : SelectDelete(i)
    \/ CancelDelete
    \/ ConfirmDelete
    \/ \E i \in 1..Len(inflight) : \E res \in MutationResponses : DeleteSettled(i, res)
    \/ \E hasFile \in BOOLEAN : SelectFile(hasFile)
    \/ \E i \in 1..Len(inflight) : \E res \in UploadResponses : UploadSettled(i, res)

Spec == Init /\ [][Next]_vars

SpecReads == InitReads /\ [][Next]_vars

\* The editor toolbar on its own, on either screen as constructed.
InitQuill ==
    /\ Constructed
    /\ history = FALSE
    /\ \E ref \in {"undefined", "null"} : quill = QuillConstructed(ref)

NextQuill ==
    \/ AttachEditor
    \/ DetachEditor
    \/ \E c \in Chars : TypeChar(c)
    \/ \E index \in 0..MaxDoc : \E length \in 0..MaxDoc : SelectRange(index, length)
    \/ clear
    \/ image

SpecQuill == InitQuill /\ [][NextQuill]_vars

-----------------------------------------------------------------------------
(* Properties.                                                              *)

\* The list reads, the form submissions and the deletes in flight.
Reads == InFlight({"GET_LIST"})
Submits == InFlight({"POST", "PATCH"})
Deletes == InFlight({"DELETE"})

\* The step just taken.
Did(op) == last'.op = op
DidOk(op) == last'.op = op /\ last'.res.ok
\* a response arrived and its status was not OK
DidNotOk(op) == last'.op = op /\ ~last'.res.rejected /\ ~last'.res.ok
\* no OK response: the fetch rejected, or the status was not OK
DidFail(op) == last'.op = op /\ ~last'.res.ok

\* C1: a create or update whose response is OK issues one list read, in the
\* step that receives the response and never in the step that sends the
\* request, and a list read that succeeds replaces the whole list by the
\* data of its response.
C1_RefetchAfterOkSubmit ==
    [][ /\ DidOk("submitSettled") =>
              /\ Reads' = Reads \o <<ListRead>>
              /\ Len(Submits') = Len(Submits) - 1
        /\ Did("submit") => Reads' = Reads
        /\ DidOk("listRead") => List' = ReadResult(last'.res.data)
      ]_vars

C1_Witness ==
    /\ last.op = "submitSettled"
    /\ last.res.ok
    /\ Len(Reads) > 0
    /\ List # <<>>

\* C2: with no list read in flight, the list is the result of the successful
\* list read that was issued last.
C2_ListIsLatestIssuedRead ==
    (Reads = <<>> /\ latestOk.any) => List = latestOk.list

\* C3: a create or update that fails (the fetch rejects, the body is not JSON,
\* or the status is not OK) leaves the dialog's open flag, the form values,
\* isEdit and the target identifier as they were, and issues no list read.
C3_FailedSubmitKeepsForm ==
    [][ DidFail("submitSettled") =>
            /\ isDialogOpen' = isDialogOpen
            /\ form' = form
            /\ isEdit' = isEdit
            /\ currentId' = currentId
            /\ Reads' = Reads
            /\ loading' = loading
      ]_vars

C3_Witness ==
    /\ last.op = "submitSettled"
    /\ ~last.res.ok
    /\ isDialogOpen
    /\ form \in TypedForms

\* C4: a DELETE is issued only by the confirm button of the open confirmation
\* dialog; that dialog opens only by a row's delete button, which records the
\* row's identifier and issues nothing; Cancel issues nothing.
C4_DeleteOnlyByConfirm ==
    [][ /\ Len(Deletes') > Len(Deletes) => Did("confirmDelete") /\ isDeleteDialogOpen
        /\ (isDeleteDialogOpen' /\ ~isDeleteDialogOpen) => Did("selectDelete")
        /\ Did("selectDelete") =>
              /\ inflight' = inflight
              /\ isDeleteDialogOpen'
              /\ \E i \in 1..Len(List) : currentId' = List[i].id
        /\ Did("cancelDelete") => inflight' = inflight
      ]_vars

C4_Witness ==
    /\ last.op = "confirmDelete"
    /\ Len(Deletes) = 1
    /\ ~isDeleteDialogOpen

\* C5 as stated: after Cancel the remembered identifier is no longer the one
\* the row's delete button recorded.
C5_CancelDiscardsId ==
    [][ Did("cancelDelete") => currentId' # currentId ]_vars

\* C5 amended: Cancel closes the confirmation, issues nothing and leaves the
\* remembered identifier as the row's delete button recorded it.
C5_CancelKeepsId ==
    [][ Did("cancelDelete") =>
            /\ currentId' = currentId
            /\ ~isDeleteDialogOpen'
            /\ inflight' = inflight
      ]_vars

C5_Witness ==
    /\ last.op = "cancelDelete"
    /\ currentId # Null
    /\ \E i \in 1..Len(List) : currentId = List[i].id

\* C6: confirming issues one DELETE for the recorded identifier and closes the
\* confirmation at once; an OK response shows the server's message (else the
\* default) and issues a list read; a response that is not OK issues no list
\* read and shows the server's message, else "Delete failed".
C6_ConfirmDeletes ==
    [][ /\ Did("confirmDelete") =>
              /\ inflight' = inflight \o <<DeleteRequest(currentId)>>
              /\ ~isDeleteDialogOpen'
        /\ DidOk("deleteSettled") =>
              /\ last'.toasts = <<Toast("success", OrElse(last'.res.message, DeletedText))>>
              /\ Reads' = Reads \o <<ListRead>>
        /\ DidNotOk("deleteSettled") =>
              /\ Reads' = Reads
              /\ last'.toasts = <<Toast("error", OrElse(last'.res.message, "Delete failed"))>>
      ]_vars

\* C7: no team-member create or update request is issued while isUploading.
C7_NoSubmitWhileUploading ==
    [][ (screen = "team" /\ Len(Submits') > Len(Submits)) => ~isUploading ]_vars

\* the form was reopened during the upload, is filled in, and only the
\* disabled button keeps it from being submitted
C7_Witness ==
    /\ screen = "team"
    /\ isUploading
    /\ isDialogOpen
    /\ last.op = "openEdit"
    /\ RequiredFilled
    /\ Room

RECURSIVE TotalMembers(_)
TotalMembers(entries) ==
    IF entries = <<>> THEN 0 ELSE Len(Head(entries).members) + TotalMembers(Tail(entries))

Occurrences(seq, m) == Cardinality({i \in 1..Len(seq) : seq[i] = m})

RECURSIVE OccurrencesInGroups(_, _)
OccurrencesInGroups(entries, m) ==
    IF entries = <<>> THEN 0
    ELSE Occurrences(Head(entries).members, m) + OccurrencesInGroups(Tail(entries), m)

\* flat holds the groups as consecutive blocks, in the order of keys
Blocks(flat, keys) ==
    \A k \in 1..Len(keys) :
        LET before == TotalMembers(SubSeq(keys, 1, k - 1))
        IN  SubSeq(flat, before + 1, before + Len(keys[k].members)) = keys[k].members

\* C8: after a successful read of /team the list holds every member of every
\* group once per group it is in (nothing dropped, nothing duplicated), group
\* after group in Object.keys order, each group in the order received.
C8_FlattenKeepsEveryMember ==
    (screen = "team" /\ last.op = "listRead" /\ last.res.ok) =>
        LET grouped == last.res.data IN
        /\ Len(teamMembers) = TotalMembers(grouped)
        /\ \A m \in {M1, M2} :
              Occurrences(teamMembers, m) = OccurrencesInGroups(grouped, m)
        /\ Blocks(teamMembers, ObjectKeys(grouped))

C8_Witness ==
    /\ screen = "team"
    /\ last.op = "listRead"
    /\ last.res.ok
    /\ Len(last.res.data) = 2
    /\ last.res.data[1].key = "ops"
    /\ teamMembers = <<M1, M2>>

\* C9: a create, update or delete that fails at transport level (the fetch
\* rejects, or the status is not OK and the body is not JSON) shows an error
\* notification.
C9_TransportFailureNotified ==
    (/\ last.op \in {"submitSettled", "deleteSettled"}
     /\ (last.res.rejected \/ (~last.res.ok /\ ~last.res.parsable)))
        => (Len(last.toasts) = 1 /\ last.toasts[1].level = "error")

\* C10: a list read that fails (the fetch rejects or the status is not OK)
\* leaves the list as it was, shows one error notification and resets loading.
C10_FailedReadKeepsList ==
    [][ DidFail("listRead") =>
            /\ List' = List
            /\ last'.toasts = <<Toast("error", LoadFailedText)>>
            /\ loading' = FALSE
      ]_vars

C10_Witness ==
    /\ last.op = "listRead"
    /\ ~last.res.ok
    /\ List # <<>>
    /\ ~loading
    /\ last.toasts = <<Toast("error", LoadFailedText)>>

\* The request issued by the step just taken (the last one in flight).
Issued == inflight'[Len(inflight')]

\* C11: a submission from a dialog opened for creation is a POST to the
\* collection root, and one from a dialog opened by a row's edit button is a
\* PATCH to that row's identifier, whatever creations, edits and delete
\* selections came before.
C11_MethodFollowsOpening ==
    [][ Did("submit") =>
            /\ Len(inflight') = Len(inflight) + 1
            /\ opening.mode \in {"create", "edit"}
            /\ opening.mode = "create" => Issued.kind = "POST" /\ Issued.id = Null
            /\ opening.mode = "edit" =>
                    Issued.kind = "PATCH" /\ Issued.id = opening.row[1].id
      ]_vars

\* a creation submitted while the DELETE of a row selected before is still
\* in flight: the remembered identifier was that row's until the dialog opened
C11_Witness ==
    /\ last.op = "submit"
    /\ opening.mode = "create"
    /\ Len(inflight) = 2
    /\ inflight[1].kind = "DELETE" /\ inflight[1].id = "1"
    /\ inflight[2].kind = "POST" /\ inflight[2].id = Null

\* C12: selecting a file sets isUploading, clears the stored image reference
\* and starts one upload; a successful upload stores the returned reference; a
\* failed one shows "Image upload failed" and leaves the stored reference as
\* it is; isUploading is false after either; selecting no file changes nothing.
C12_UploadStoresReference ==
    [][ /\ Did("selectFile") =>
              /\ isUploading'
              /\ memberImageLink' = Null
              /\ inflight' = inflight \o <<UploadRequest>>
        /\ DidOk("uploadSettled") =>
              /\ memberImageLink' = last'.res.data[1]
              /\ ~isUploading'
        /\ DidFail("uploadSettled") =>
              /\ last'.toasts = <<Toast("error", "Image upload failed")>>
              /\ memberImageLink' = memberImageLink
              /\ ~isUploading'
        /\ Did("selectNoFile") => UNCHANGED screenVars
      ]_vars

\* an edited member's image was cleared by the upload that then failed
C12_Witness ==
    /\ last.op = "uploadSettled"
    /\ ~last.res.ok
    /\ opening.mode = "edit"
    /\ opening.row[1].image # Null
    /\ memberImageLink = Null
    /\ ~isUploading

\* C13: the body of a team-member create or update has an image field exactly
\* when an image reference is stored at submit time, and the field is then
\* that reference.
C13_ImageFieldIffStored ==
    [][ (screen = "team" /\ Did("submit")) =>
            LET field == Issued.payload[1].image IN
            /\ (field # <<>>) <=> (memberImageLink # Null /\ memberImageLink # "")
            /\ field # <<>> => field = <<memberImageLink>>
      ]_vars

\* an edit submitted after the upload that cleared the member's image failed:
\* the body has no image field
C13_Witness ==
    /\ screen = "team"
    /\ last.op = "submit"
    /\ opening.mode = "edit"
    /\ opening.row[1].image # Null
    /\ memberImageLink = Null
    /\ inflight[Len(inflight)].kind = "PATCH"
    /\ inflight[Len(inflight)].payload[1].image = <<>>

\* C14: a create or update answered with a status that is not OK and a JSON
\* body shows one error notification: the body's message when it has one that
\* is not empty, "Something went wrong" otherwise.
C14_ServerMessageShown ==
    (/\ last.op = "submitSettled"
     /\ ~last.res.rejected /\ last.res.parsable /\ ~last.res.ok)
        => last.toasts =
              <<Toast("error", IF last.res.message \in {Null, ""}
                               THEN "Something went wrong"
                               ELSE last.res.message)>>

C14_Witness ==
    /\ last.op = "submitSettled"
    /\ ~last.res.ok /\ last.res.parsable
    /\ last.res.message = ServerMessage
    /\ last.toasts = <<Toast("error", ServerMessage)>>

Uploads == InFlight({"UPLOAD"})
SelectorReads == InFlight({"GET_SELECTOR"})

\* C15: one submit issues one POST or PATCH, one confirm one DELETE, one file
\* selection one upload, and nothing else issues them; list reads are issued
\* on mount and by a create, update or delete that was answered OK, one each;
\* a request that fails issues nothing.
C15_NoRetry ==
    [][ /\ Len(Submits') > Len(Submits) =>
              Did("submit") /\ Len(Submits') = Len(Submits) + 1
        /\ Len(Deletes') > Len(Deletes) =>
              Did("confirmDelete") /\ Len(Deletes') = Len(Deletes) + 1
        /\ Len(Uploads') > Len(Uploads) =>
              Did("selectFile") /\ Len(Uploads') = Len(Uploads) + 1
        /\ Len(Reads') > Len(Reads) =>
              /\ Did("mount") \/ DidOk("submitSettled") \/ DidOk("deleteSettled")
              /\ Len(Reads') = Len(Reads) + 1
        /\ Len(SelectorReads') > Len(SelectorReads) => Did("mount")
        /\ (\E op \in {"listRead", "selectorRead", "submitSettled",
                        "deleteSettled", "uploadSettled"} : DidFail(op)) =>
              Len(inflight') = Len(inflight) - 1
      ]_vars

\* a create whose fetch rejected: nothing is in flight afterwards
C15_Witness ==
    /\ last.op = "submitSettled"
    /\ last.res.rejected
    /\ inflight = <<>>
    /\ isDialogOpen

\* C16 as stated: loading, the form dialog's open flag and the delete
\* dialog's open flag are never true together.
C16_FlagsExclusive ==
    /\ ~(loading /\ isDialogOpen)
    /\ ~(loading /\ isDeleteDialogOpen)
    /\ ~(isDialogOpen /\ isDeleteDialogOpen)

\* C16 amended: the two dialogs are never open together, and a row's edit
\* dialog or delete confirmation opens only while loading is false; loading
\* itself may be true while either dialog is open.
C16_DialogsExclusive ==
    [][ /\ ~(isDialogOpen' /\ isDeleteDialogOpen')
        /\ (Did("openEdit") \/ Did("selectDelete")) => ~loading
      ]_vars

\* the delete confirmation of one row is open when the DELETE of another is
\* answered OK and the list is read again
C16_Witness ==
    /\ loading
    /\ isDeleteDialogOpen
    /\ last.op = "deleteSettled"
    /\ last.res.ok

\* An optional value as the form shows it: empty when the row has none.
AsEntered(x) == IF x = Null THEN "" ELSE x

\* C17: opening the creation dialog gives an open dialog in create mode, no
\* target identifier, no stored image and every field empty; opening the edit
\* dialog of a row gives an open dialog in edit mode with the row's
\* identifier, the row's values in the fields (a missing optional value as
\* the empty string) and, for a team member, the row's image as the stored one.
C17_DialogOpensClean ==
    [][ /\ Did("openCreate") =>
              /\ isDialogOpen' /\ ~isEdit'
              /\ currentId' = Null
              /\ memberImageLink' = Null
              /\ form' = IF screen = "dept"
                         THEN [name |-> "", description |-> ""]
                         ELSE [name |-> "", designation |-> "", about |-> "",
                               departmentId |-> ""]
        /\ Did("openEdit") =>
              LET row == opening'.row[1] IN
              /\ \E i \in 1..Len(List) : List[i] = row
              /\ isDialogOpen' /\ isEdit'
              /\ currentId' = row.id
              /\ form'.name = row.name
              /\ screen = "dept" =>
                    form' = [name |-> row.name,
                             description |-> AsEntered(row.description)]
              /\ screen = "team" =>
                    /\ form' = [name |-> row.name, designation |-> row.designation,
                                about |-> row.about,
                                departmentId |-> AsEntered(row.departmentId)]
                    /\ memberImageLink' = row.image
      ]_vars

\* the edit dialog of a member without department and without image
C17_Witness ==
    /\ screen = "team"
    /\ last.op = "openEdit"
    /\ opening.row = <<M2>>
    /\ form.departmentId = ""
    /\ memberImageLink = Null

\* C18: when not loading, the department table has one row per department of
\* the list, in list order, with the department's name and the length of its
\* teams (0 when teams is absent or empty); an empty list gives the single
\* "No departments found" row.
C18_TableShowsList ==
    (screen = "dept" /\ ~loading) =>
        IF departments = <<>>
        THEN /\ Len(TableBody) = 1
             /\ TableBody[1].kind = "empty"
             /\ TableBody[1].name = "No departments found"
        ELSE /\ Len(TableBody) = Len(departments)
             /\ \A i \in 1..Len(departments) :
                   /\ TableBody[i].kind = "department"
                   /\ TableBody[i].name = departments[i].name
                   /\ TableBody[i].count =
                         IF departments[i].teams = <<>> THEN 0
                         ELSE IF departments[i].teams[1] = <<>> THEN 0
                         ELSE Len(departments[i].teams[1])

\* a department with two team members and one whose teams is empty
C18_Witness ==
    /\ screen = "dept"
    /\ ~loading
    /\ departments = <<D2, D3>>
    /\ TableBody[1].count = 2
    /\ TableBody[2].count = 0

\* C19: with a live editor the clear handler calls setText('') and then
\* setSelection(0, 0), leaving an empty document with the cursor at its start;
\* without an editor instance the clear handler and the image handler make no
\* call and change nothing.
C19_ClearEmptiesAndResets ==
    [][ /\ (quill'.op = "clear" /\ quill.ref = "live") =>
              /\ quill'.calls = << "quillRef.current.getEditor()",
                                   "editor.setText('')",
                                   "editor.setSelection(0, 0)" >>
              /\ quill'.text = <<>>
              /\ quill'.selection = Selection(0, 0)
        /\ (quill'.op \in {"clear", "image"} /\ quill.ref # "live") =>
              /\ quill'.calls = <<>>
              /\ quill'.text = quill.text
              /\ quill'.selection = quill.selection
              /\ quill'.ref = quill.ref
      ]_vars

C19_Witness ==
    /\ quill.op = "clear"
    /\ quill.ref = "live"
    /\ Len(quill.calls) = 3
    /\ quill.text = <<>>
    /\ quill.selection = Selection(0, 0)

\* C20: loading is true whenever a list read of the screen's own collection is
\* in flight, so the table shows neither rows nor the empty-list row then.
C20_LoadingWhileReading ==
    Reads # <<>> => loading

\* C21: the image reference in the body of a team-member create or update is
\* the edited member's image as stored when the dialog opened, or the result
\* of an upload started during the same opening of the dialog: never the
\* result of an upload started during an earlier opening.
C21_ImageFromThisOpening ==
    [][ (screen = "team" /\ Did("submit") /\ Issued.payload[1].image # <<>>) =>
            ~opening.stale
      ]_vars

====
